---- MODULE Spec2Model ----
(***************************************************************************)
(* A model of notebooks/oeutils.py: download (acquire), read (loadLatest)  *)
(* and clean (normalize).                                                  *)
(*                                                                         *)
(* Python strings whose characters matter (gameid, the digits of a year or *)
(* of a date in a file name) are sequences; the missing value NaN of a     *)
(* string column is the one-element sequence NaN.  Directory arguments end *)
(* with a path separator, as in the docstrings' example.                   *)
(***************************************************************************)
EXTENDS Integers, Sequences, FiniteSets, TLC

VARIABLES
    \* ---- clean ----
    oe_data,      \* the caller's table handed to clean (clean assigns its date column)
    orig,         \* history: the table as it was before the call
    params,       \* the arguments of the call
    result,       \* what clean returned (or the error it raised)
    result2,      \* what clean returned when applied to its own result
    cpc,          \* "build" | "cleaned" | "recleaned"
    \* ---- download / read ----
    fs,           \* the file system: directory -> file name -> content
    pc,           \* position of the running call
    call,         \* the arguments of the running call
    years,        \* the list the loop iterates over (after the isinstance block)
    idx,          \* index of the current year in years
    log,          \* history: the requests, removals and writes made so far
    decision,     \* history: the outcome of the latest evaluation of line 52
    oe_read       \* the value returned by read

vars == <<oe_data, orig, params, result, result2, cpc,
          fs, pc, call, years, idx, log, decision, oe_read>>

cleanVars == <<oe_data, orig, params, result, result2, cpc>>
acqVars   == <<fs, pc, call, years, idx, log, decision, oe_read>>

(***************************************************************************)
(* Bounds                                                                  *)
(***************************************************************************)
MaxRows == 2
MaxYears == 2

None == "None"

(***************************************************************************)
(*                               clean                                     *)
(***************************************************************************)
NaN == <<"NaN">>
Whitespace == {" "}

RECURSIVE lstrip(_)
lstrip(s) ==
    IF s = <<>> THEN s
    ELSE IF Head(s) \in Whitespace THEN lstrip(Tail(s)) ELSE s

RECURSIVE rstrip(_)
rstrip(s) ==
    IF s = <<>> THEN s
    ELSE IF s[Len(s)] \in Whitespace THEN rstrip(SubSeq(s, 1, Len(s) - 1)) ELSE s

\* A plausible slip: only leading whitespace is removed.
strip_leading_only(v) == IF v = NaN THEN NaN ELSE lstrip(v)

\* Series.str.strip(): NaN stays NaN, a string loses leading and trailing whitespace.
strip(v) == IF v = NaN THEN NaN ELSE rstrip(lstrip(v))

notna(v) == v # NaN

AllColumns == {"date", "datacompleteness", "gameid", "league", "position", "team", "player"}

\* The strings of the date column that match '%Y/%m/%d %H:%M:%S'.
WellFormedDates == {"2023/01/01 10:00:00"}

StrDate(s) == [kind |-> "str", v |-> s]
Timestamp(s) == [kind |-> "ts", v |-> s]

MkRow(dc, g, l, pos, t, p, d) ==
    [c \in AllColumns |->
        CASE c = "date" -> StrDate(d)
          [] c = "datacompleteness" -> dc
          [] c = "gameid" -> g
          [] c = "league" -> l
          [] c = "position" -> pos
          [] c = "team" -> t
          [] c = "player" -> p]

GoodDate == "2023/01/01 10:00:00"

\* The rows a raw table is built from.
Rows ==
    \* team-level rows of the games g and h
    { MkRow("complete", g, "LCS", "team", t, "NaN", GoodDate) :
        g \in {<<"g">>, <<" ", "g">>, <<"h", " ">>}, t \in {"TeamA", "unknown team"} }
    \cup
    \* player-level rows of the games g and h
    { MkRow("complete", g, "LCS", "top", "TeamA", p, GoodDate) :
        g \in {<<"g">>, <<"h", " ">>}, p \in {"P1", "unknown player"} }
    \cup
    \* unresolved rows that an earlier filter removes
    { MkRow(s[1], <<"g">>, s[2], i[1], i[2], i[3], GoodDate) :
        s \in {<<"partial", "LCS">>, <<"complete", "LEC">>},
        i \in {<<"team", "unknown team", "NaN">>, <<"top", "TeamA", "unknown player">>} }
    \cup
    \* rows without a usable gameid
    { MkRow("complete", g, "LCS", "team", "TeamA", "NaN", GoodDate) :
        g \in {NaN, <<" ">>} }
    \cup
    \* a row whose date does not match the format
    { MkRow("complete", <<"g">>, "LCS", "team", "TeamA", "NaN", "01-01-2023") }

Table(cols, rows) == [cols |-> cols, rows |-> rows]

\* Results of the pipeline: a table, or the error that was raised.
Ok(t) == [err |-> "none", table |-> t]
Raise(e) == [err |-> e]

\* df[mask]: keep the rows that satisfy Test, in order.
Filter(t, Test(_)) == Table(t.cols, SelectSeq(t.rows, Test))

\* A plausible slip: to_datetime applies the format to every value, parsed or not.
to_datetime_always_parses(t) ==
    IF "date" \notin t.cols THEN Raise("KeyError")
    ELSE IF \E i \in 1..Len(t.rows) :
                \/ t.rows[i]["date"].kind # "str"
                \/ t.rows[i]["date"].v \notin WellFormedDates
         THEN Raise("ParseError")
    ELSE Ok(Table(t.cols,
            [i \in 1..Len(t.rows) |->
                [t.rows[i] EXCEPT !["date"] = Timestamp(@.v)]]))

\* line 153: oe_data['date'] = pd.to_datetime(oe_data['date'], format=...)
to_datetime(t) ==
    IF "date" \notin t.cols THEN Raise("KeyError")
    ELSE IF \E i \in 1..Len(t.rows) :
                /\ t.rows[i]["date"].kind = "str"
                /\ t.rows[i]["date"].v \notin WellFormedDates
         THEN Raise("ParseError")
    ELSE Ok(Table(t.cols,
            [i \in 1..Len(t.rows) |->
                [t.rows[i] EXCEPT !["date"] = Timestamp(@.v)]]))

\* line 154
complete_only(t) ==
    IF "datacompleteness" \notin t.cols THEN Raise("KeyError")
    ELSE Ok(Filter(t, LAMBDA r : r["datacompleteness"] = "complete"))

\* lines 155-156; an empty list is falsy, like None
project(t, keep_columns) ==
    IF keep_columns = {} THEN Ok(t)
    ELSE IF ~(keep_columns \subseteq t.cols) THEN Raise("KeyError")
    ELSE Ok(Table(keep_columns,
            [i \in 1..Len(t.rows) |-> [c \in keep_columns |-> t.rows[i][c]]]))

\* lines 157-158
league_filter(t, keep_leagues) ==
    IF keep_leagues = {} THEN Ok(t)
    ELSE IF "league" \notin t.cols THEN Raise("AttributeError")
    ELSE Ok(Filter(t, LAMBDA r : r["league"] \in keep_leagues))

\* line 160
strip_gameid(t) ==
    IF "gameid" \notin t.cols THEN Raise("KeyError")
    ELSE Ok(Table(t.cols,
            [i \in 1..Len(t.rows) |->
                [t.rows[i] EXCEPT !["gameid"] = strip(@)]]))

\* line 161
drop_na_gameid(t) == Ok(Filter(t, LAMBDA r : notna(r["gameid"])))

\* lines 169-171 and 179-181
drop_unknown_games(t, col, sentinel) ==
    LET dropgames == { t.rows[i]["gameid"] :
                         i \in { j \in 1..Len(t.rows) : t.rows[j][col] = sentinel } }
    IN  Filter(t, LAMBDA r : r["gameid"] \notin dropgames)

\* lines 163-181
split(t, split_on, keep_identities) ==
    IF split_on = "team" THEN
        IF ~({"position", "team"} \subseteq t.cols) THEN Raise("KeyError")
        ELSE
          LET level == Filter(t, LAMBDA r : r["position"] = "team")
              kept  == IF keep_identities = {} THEN level
                       ELSE Filter(level, LAMBDA r : r["team"] \in keep_identities)
          IN  Ok(drop_unknown_games(kept, "team", "unknown team"))
    ELSE IF split_on = "player" THEN
        IF ~({"position", "player"} \subseteq t.cols) THEN Raise("KeyError")
        ELSE
          LET level == Filter(t, LAMBDA r : r["position"] # "team")
              kept  == IF keep_identities = {} THEN level
                       ELSE Filter(level, LAMBDA r : r["player"] \in keep_identities)
          IN  Ok(drop_unknown_games(kept, "player", "unknown player"))
    ELSE Ok(t)

\* f after r, unless r raised
Then(r, f(_)) == IF r.err # "none" THEN r ELSE f(r.table)

\* lines 153-183: the value clean returns, or the error it raises
clean(t, split_on, keep_identities, keep_leagues, keep_columns) ==
    LET s1 == to_datetime(t)
        s2 == Then(s1, complete_only)
        s3 == Then(s2, LAMBDA x : project(x, keep_columns))
        s4 == Then(s3, LAMBDA x : league_filter(x, keep_leagues))
        s5 == Then(s4, strip_gameid)
        s6 == Then(s5, drop_na_gameid)
    IN  Then(s6, LAMBDA x : split(x, split_on, keep_identities))

\* line 153 assigns the parsed column into the caller's frame
clean_input_after(t) == IF to_datetime(t).err = "none" THEN to_datetime(t).table ELSE t

SplitSelectors == {"team", "player", None}
IdentityLists == { {}, {"TeamA", "P1"} }
LeagueLists == { {}, {"LCS"} }
ColumnLists == { {},
                 AllColumns \ {"player"},
                 AllColumns \ {"date", "datacompleteness"},
                 AllColumns \ {"gameid"} }

\* no call of download or read is made
AcqIdle ==
    /\ fs = <<>>
    /\ pc = "off"
    /\ call = [fn |-> "none"]
    /\ years = <<>>
    /\ idx = 0
    /\ log = <<>>
    /\ decision = [made |-> FALSE]
    /\ oe_read = None

CleanInit ==
    /\ AcqIdle
    /\ oe_data = Table(AllColumns, <<>>)
    /\ orig = Table(AllColumns, <<>>)
    /\ params = None
    /\ result = None
    /\ result2 = None
    /\ cpc = "build"

\* the caller assembles the raw table
AddRow ==
    /\ cpc = "build"
    /\ Len(oe_data.rows) < MaxRows
    /\ \E r \in Rows :
         /\ oe_data' = Table(AllColumns, Append(oe_data.rows, r))
         /\ orig' = oe_data'
    /\ UNCHANGED <<params, result, result2, cpc>>
    /\ UNCHANGED acqVars

\* clean(oe_data, split_on, keep_identities, keep_leagues, keep_columns)
Clean ==
    /\ cpc = "build"
    /\ \E s \in SplitSelectors, ki \in IdentityLists, kl \in LeagueLists, kc \in ColumnLists :
         /\ params' = [split_on |-> s, keep_identities |-> ki,
                       keep_leagues |-> kl, keep_columns |-> kc]
         /\ result' = clean(oe_data, s, ki, kl, kc)
    /\ oe_data' = clean_input_after(oe_data)
    /\ cpc' = "cleaned"
    /\ UNCHANGED <<orig, result2>>
    /\ UNCHANGED acqVars

\* clean applied again, with the same arguments, to the table it returned
Reclean ==
    /\ cpc = "cleaned"
    /\ result.err = "none"
    /\ result2' = clean(result.table, params.split_on, params.keep_identities,
                        params.keep_leagues, params.keep_columns)
    /\ cpc' = "recleaned"
    /\ UNCHANGED <<oe_data, orig, params, result>>
    /\ UNCHANGED acqVars

(***************************************************************************)
(*                          download and read                              *)
(***************************************************************************)
RECURSIVE IntToDigits(_)
\* str(n) of a natural number, as its sequence of decimal digits
IntToDigits(n) == IF n < 10 THEN <<n>> ELSE Append(IntToDigits(n \div 10), n % 10)

RECURSIVE DigitsToInt(_)
\* int(s) of a string of decimal digits
DigitsToInt(s) ==
    IF s = <<>> THEN 0 ELSE 10 * DigitsToInt(SubSeq(s, 1, Len(s) - 1)) + s[Len(s)]

Pad2(n) == IF n < 10 THEN <<0, n>> ELSE IntToDigits(n)

\* line 10: datetime.date.today(), read once when the module is loaded
current_date == [y |-> 2023, m |-> 1, d |-> 2]

DaysIn(m, y) ==
    IF m = 2 THEN (IF (y % 4 = 0 /\ y % 100 # 0) \/ y % 400 = 0 THEN 29 ELSE 28)
    ELSE IF m \in {4, 6, 9, 11} THEN 30 ELSE 31

\* date - datetime.timedelta(days = 1)
minus_one_day(dt) ==
    IF dt.d > 1 THEN [dt EXCEPT !.d = @ - 1]
    ELSE IF dt.m > 1 THEN [y |-> dt.y, m |-> dt.m - 1, d |-> DaysIn(dt.m - 1, dt.y)]
    ELSE [y |-> dt.y - 1, m |-> 12, d |-> 31]

\* strftime('%Y%m%d')
strftime(dt) == IntToDigits(dt.y) \o Pad2(dt.m) \o Pad2(dt.d)

today == strftime(current_date)
yesterday == strftime(minus_one_day(current_date))

\* a year as the caller passes it: a string of digits or an integer
StrYear(digits) == [t |-> "str", text |-> digits]
IntYear(n) == [t |-> "int", n |-> n]

\* str(year), also what f'{year}' puts into a file name
str(year) == IF year.t = "int" THEN IntToDigits(year.n) ELSE year.text

\* the years argument: a list, or a single value
ListArg(items) == [list |-> TRUE, items |-> items]
ScalarArg(item) == [list |-> FALSE, item |-> item]

\* lines 40-45 and 98-103: the list the loop runs over
listed_years(arg) ==
    IF arg.list THEN arg.items
    ELSE IF arg.item.t = "int" THEN <<StrYear(str(arg.item))>> ELSE <<>>

\* f'{year}_LoL_esports_match_data_from_OraclesElixir_{date}.csv': the fixed
\* text between year and date is the same in every name
FileName(yeartext, datetext) == [year |-> yeartext, date |-> datetext]

\* x.startswith(file), file being the prefix of year (line 49)
startswith(name, year) == name.year = str(year)

\* the two directories of the model; os.listdir() and os.remove act on CWD
CWD == "./"
Dirs == {CWD, "data/"}

\* what the remote serves for a name, and what a file that was there before holds
RemoteData(name) == [origin |-> "remote", name |-> name]
LocalData(dir, name) == [origin |-> "local", dir |-> dir, name |-> name]

\* to_csv(path): create or overwrite
WriteFile(files, name, data) ==
    [n \in (DOMAIN files) \cup {name} |-> IF n = name THEN data ELSE files[n]]

\* os.remove of each name in names
RemoveFiles(files, names) == [n \in (DOMAIN files) \ names |-> files[n]]

\* line 50
current_files(files, year) == { x \in DOMAIN files : startswith(x, year) }

\* line 52
should_fetch(delete, files, year) ==
    delete /\ FileName(str(year), today) \notin current_files(files, year)

\* line 64: the name today's payload is saved under
today_csv(year) == FileName(str(year), today)

\* A plausible slip: the fallback saves under today's name.
yesterday_csv_as_today(year) == FileName(str(year), today)

\* line 74: the name yesterday's payload is saved under
yesterday_csv(year) == FileName(str(year), yesterday)

Last(s) == s[Len(s)]

YearValues == {StrYear(<<2, 0, 2, 2>>), IntYear(2023)}
ScalarYears == {StrYear(<<2, 0, 2, 2>>), IntYear(2022)}

RECURSIVE SeqsUpTo(_, _)
SeqsUpTo(S, n) ==
    IF n = 0 THEN {<<>>}
    ELSE LET shorter == SeqsUpTo(S, n - 1)
         IN  shorter \cup { Append(q, x) : q \in shorter, x \in S }

YearArgs == { ScalarArg(y) : y \in ScalarYears }
            \cup { ListArg(q) : q \in SeqsUpTo(YearValues, MaxYears) }

OldDate == strftime([y |-> 2022, m |-> 12, d |-> 31])

\* the files a directory may hold before the call
LocalNames(dir) ==
    IF dir = CWD
    THEN { FileName(<<2, 0, 2, 2>>, dt) : dt \in {OldDate, yesterday, today} }
    ELSE { FileName(<<2, 0, 2, 2>>, OldDate), FileName(<<2, 0, 2, 2>>, today),
           FileName(<<2, 0, 2, 3>>, yesterday) }

Outcomes == {"ok", "FetchError", "DecodeError", "ParseError"}

NoCall == [fn |-> "none"]
NoDecision == [made |-> FALSE]

\* no call of clean is made
CleanIdle ==
    /\ oe_data = Table(AllColumns, <<>>)
    /\ orig = Table(AllColumns, <<>>)
    /\ params = None
    /\ result = None
    /\ result2 = None
    /\ cpc = "off"

AcqInit ==
    /\ CleanIdle
    /\ \E here \in SUBSET LocalNames(CWD), there \in SUBSET LocalNames("data/") :
         fs = [dir \in Dirs |->
                 IF dir = CWD THEN [n \in here |-> LocalData(dir, n)]
                 ELSE [n \in there |-> LocalData(dir, n)]]
    /\ pc = "idle"
    /\ call = NoCall
    /\ years = <<>>
    /\ idx = 0
    /\ log = <<>>
    /\ decision = NoDecision
    /\ oe_read = None

\* download(directory, years, delete): lines 40-45
CallDownload ==
    /\ pc = "idle"
    /\ \E dir \in Dirs, arg \in YearArgs, del \in BOOLEAN :
         /\ call' = [fn |-> "download", directory |-> dir, years |-> arg, delete |-> del]
         /\ years' = listed_years(arg)
    /\ idx' = 1
    /\ pc' = "loop"
    /\ UNCHANGED <<fs, log, decision, oe_read>>
    /\ UNCHANGED cleanVars

\* lines 48-55: the head of one iteration
DownloadYear ==
    /\ pc = "loop"
    /\ idx <= Len(years)
    /\ LET year == years[idx]
           fetch == should_fetch(call.delete, fs[CWD], year)
       IN  /\ decision' = [made |-> TRUE, year |-> str(year), fetch |-> fetch,
                           present |-> today_csv(year) \in DOMAIN fs[call.directory]]
           /\ IF fetch
              THEN /\ fs' = [fs EXCEPT ![CWD] = RemoveFiles(@, current_files(@, year))]
                   /\ log' = Append(log, [op |-> "remove", year |-> str(year),
                                          names |-> current_files(fs[CWD], year)])
                   /\ pc' = "today"
                   /\ idx' = idx
              ELSE /\ idx' = idx + 1
                   /\ UNCHANGED <<fs, log, pc>>
    /\ UNCHANGED <<call, years, oe_read>>
    /\ UNCHANGED cleanVars

\* lines 57-65: the try block
FetchToday ==
    /\ pc = "today"
    /\ LET year == years[idx]
           name == today_csv(year)
       IN  \E outcome \in Outcomes :
             IF outcome = "ok"
             THEN /\ fs' = [fs EXCEPT ![call.directory] = WriteFile(@, name, RemoteData(name))]
                  /\ log' = log \o << [op |-> "get", name |-> name, outcome |-> outcome],
                                      [op |-> "write", dir |-> call.directory, name |-> name] >>
                  /\ idx' = idx + 1
                  /\ pc' = "loop"
             ELSE /\ log' = Append(log, [op |-> "get", name |-> name, outcome |-> outcome])
                  /\ pc' = "yesterday"
                  /\ UNCHANGED <<fs, idx>>
    /\ UNCHANGED <<call, years, decision, oe_read>>
    /\ UNCHANGED cleanVars

\* lines 67-75: the except block; what it raises reaches the caller
FetchYesterday ==
    /\ pc = "yesterday"
    /\ LET year == years[idx]
           name == yesterday_csv(year)
           asked == FileName(str(year), yesterday)
       IN  \E outcome \in Outcomes :
             IF outcome = "ok"
             THEN /\ fs' = [fs EXCEPT ![call.directory] = WriteFile(@, name, RemoteData(asked))]
                  /\ log' = log \o << [op |-> "get", name |-> asked, outcome |-> outcome],
                                      [op |-> "write", dir |-> call.directory, name |-> name] >>
                  /\ idx' = idx + 1
                  /\ pc' = "loop"
             ELSE /\ log' = Append(log, [op |-> "get", name |-> asked, outcome |-> outcome])
                  /\ pc' = "raised"
                  /\ UNCHANGED <<fs, idx>>
    /\ UNCHANGED <<call, years, decision, oe_read>>
    /\ UNCHANGED cleanVars

\* the loop is exhausted: download returns None
DownloadReturn ==
    /\ pc = "loop"
    /\ idx > Len(years)
    /\ pc' = "done"
    /\ UNCHANGED <<fs, call, years, idx, log, decision, oe_read>>
    /\ UNCHANGED cleanVars

\* A plausible slip: the comparison of line 113 reversed keeps the smallest date.
least_file_date(matching_files) ==
    LET RECURSIVE scan(_, _)
        scan(todo, least) ==
            IF todo = {} THEN least
            ELSE LET match == CHOOSE x \in todo : TRUE
                 IN  scan(todo \ {match},
                          IF least = 0 \/ DigitsToInt(match.date) < least
                          THEN DigitsToInt(match.date) ELSE least)
    IN  scan(matching_files, 0)

RECURSIVE MaxOver(_, _)
\* lines 111-114: the loop over glob's matches, in whatever order glob gives them
MaxOver(todo, most_recent_file_date) ==
    IF todo = {} THEN most_recent_file_date
    ELSE LET match == CHOOSE x \in todo : TRUE
         IN  MaxOver(todo \ {match},
                     IF DigitsToInt(match.date) > most_recent_file_date
                     THEN DigitsToInt(match.date) ELSE most_recent_file_date)

most_recent_file_date(matching_files) == MaxOver(matching_files, 0)

\* lines 107-119: one iteration of read; what it appends to oe_data
read_year(files, year) ==
    LET matching_files == { x \in DOMAIN files : startswith(x, year) }
        import_date == IntToDigits(most_recent_file_date(matching_files))
        path == FileName(str(year), import_date)
    IN  IF path \in DOMAIN files THEN <<files[path]>> ELSE <<>>

RECURSIVE read_loop(_, _, _)
\* lines 106-121
read_loop(files, ys, oe) ==
    IF ys = <<>> THEN oe
    ELSE read_loop(files, Tail(ys), oe \o read_year(files, Head(ys)))

\* read(directory, years)
read(files, arg) == read_loop(files, listed_years(arg), <<>>)

CallRead ==
    /\ pc = "idle"
    /\ \E dir \in Dirs, arg \in YearArgs :
         /\ call' = [fn |-> "read", directory |-> dir, years |-> arg, delete |-> FALSE]
         /\ years' = listed_years(arg)
         /\ oe_read' = read(fs[dir], arg)
    /\ pc' = "returned"
    /\ UNCHANGED <<fs, idx, log, decision>>
    /\ UNCHANGED cleanVars

NextAcq ==
    \/ CallDownload
    \/ DownloadYear
    \/ FetchToday
    \/ FetchYesterday
    \/ DownloadReturn
    \/ CallRead

SpecAcq == AcqInit /\ [][NextAcq]_vars

NextClean == AddRow \/ Clean \/ Reclean

SpecClean == CleanInit /\ [][NextClean]_vars

(***************************************************************************)
(* Properties of download and read                                         *)
(***************************************************************************)
TargetFiles == fs[call.directory]

FilesOfYear(files, yeartext) == { n \in DOMAIN files : n.year = yeartext }

\* C3: once download, called with delete = True, has saved a year's file, the
\* target directory holds exactly one file of that year's prefix: the file
\* just saved.
CE_C3 ==
    (log # <<>> /\ Last(log).op = "write" /\ call.delete)
        => FilesOfYear(TargetFiles, Last(log).name.year) = {Last(log).name}

\* C4: for each year, download fetches exactly when the file named for the
\* current date is not in the target directory, whatever the value of delete.
CE_C4 == decision.made => (decision.fetch <=> ~decision.present)

Failures == Outcomes \ {"ok"}

\* C5: when today's fetch fails and yesterday's succeeds, download does not
\* raise, the target directory then holds yesterday's payload under
\* yesterday's name, nothing else in the file system has changed since the
\* failed attempt (no file was written under today's name), and yesterday's
\* file is requested only right after a failed request for today's.
Thm_C5 ==
    [][ /\ pc' = "yesterday" =>
              /\ pc = "today"
              /\ fs' = fs
              /\ Last(log') = [op |-> "get", name |-> FileName(str(years[idx]), today),
                               outcome |-> Last(log').outcome]
              /\ Last(log').outcome \in Failures
        /\ ( /\ pc = "yesterday"
             /\ Len(log') > Len(log)
             /\ log'[Len(log) + 1].outcome = "ok" ) =>
              LET name == FileName(str(years[idx]), yesterday)
              IN  /\ pc' = "loop"
                  /\ log'[Len(log) + 1].name = name
                  /\ name \in DOMAIN fs'[call.directory]
                  /\ fs'[call.directory][name] = RemoteData(name)
                  /\ \A dir \in Dirs :
                        \A n \in (DOMAIN fs[dir]) \cup (DOMAIN fs'[dir]) :
                            (dir # call.directory \/ n # name) =>
                               /\ n \in DOMAIN fs[dir]
                               /\ n \in DOMAIN fs'[dir]
                               /\ fs'[dir][n] = fs[dir][n]
      ]_vars

\* download returned after a year whose fetch fell back to yesterday's file
Wit_C5 ==
    /\ pc = "done"
    /\ \E k \in 1..(Len(log) - 2) :
         /\ log[k].op = "get" /\ log[k].name.date = today /\ log[k].outcome \in Failures
         /\ log[k + 1].op = "get" /\ log[k + 1].name.date = yesterday
         /\ log[k + 1].outcome = "ok"
         /\ log[k + 2].op = "write" /\ log[k + 2].name = log[k + 1].name
         /\ log[k + 2].name \in DOMAIN TargetFiles
         /\ FileName(log[k].name.year, today) \notin DOMAIN TargetFiles

\* the years the caller asked for, as a list
Requested == IF call.years.list THEN call.years.items ELSE <<call.years.item>>

\* C6: download and read process exactly the requested years, whether these
\* come as one year or as a list and as strings or as integers.
CE_C6 ==
    call.fn # "none" =>
        [k \in 1..Len(years) |-> str(years[k])]
            = [k \in 1..Len(Requested) |-> str(Requested[k])]

\* a <= b for two strings of digits of the same length, read as numbers
DigitsLeq(a, b) ==
    \/ a = b
    \/ \E i \in 1..Len(a) :
          /\ a[i] < b[i]
          /\ \A j \in 1..(i - 1) : a[j] = b[j]

\* C7: read, given a list of years, returns the concatenation, in the order
\* of the requested years, of one file for each year that has a matching
\* file, the file of the greatest date; a year without a file adds nothing
\* and stops nothing.
Thm_C7 ==
    (pc = "returned" /\ call.years.list) =>
        LET ys == call.years.items
            Has(i) == FilesOfYear(TargetFiles, str(ys[i])) # {}
            Latest(i, n) ==
                /\ n \in FilesOfYear(TargetFiles, str(ys[i]))
                /\ \A m \in FilesOfYear(TargetFiles, str(ys[i])) : DigitsLeq(m.date, n.date)
        IN  \E f \in [1..Len(oe_read) -> 1..Len(ys)] :
              /\ \A a, b \in 1..Len(oe_read) : a < b => f[a] < f[b]
              /\ { f[k] : k \in 1..Len(oe_read) } = { i \in 1..Len(ys) : Has(i) }
              /\ \A k \in 1..Len(oe_read) :
                    \E n \in DOMAIN TargetFiles :
                        Latest(f[k], n) /\ oe_read[k] = TargetFiles[n]

\* read skipped a first year without files and loaded the latest of the
\* several files of the second
Wit_C7 ==
    /\ pc = "returned"
    /\ call.years.list
    /\ Len(call.years.items) = 2
    /\ FilesOfYear(TargetFiles, str(call.years.items[1])) = {}
    /\ Cardinality(FilesOfYear(TargetFiles, str(call.years.items[2]))) >= 2
    /\ Len(oe_read) = 1
    /\ oe_read[1].name.date = today

\* C10: when download with delete = True fails on both fetches of a year, the
\* error reaches the caller and the target directory is left without any
\* file of that year's prefix.
CE_C10 ==
    pc = "raised" =>
        /\ call.delete
        /\ FilesOfYear(TargetFiles, str(years[idx])) = {}

(***************************************************************************)
(* Properties of clean                                                     *)
(***************************************************************************)
Returned == cpc \in {"cleaned", "recleaned"} /\ result.err = "none"

OutRows == result.table.rows
InRows == orig.rows

\* C1: every row of the table clean returns has datacompleteness "complete"
\* and a gameid that is present and not empty (a whitespace-only gameid does
\* not reach the output).
CE_C1 ==
    Returned =>
        \A i \in 1..Len(OutRows) :
            /\ "datacompleteness" \in result.table.cols
                    => OutRows[i]["datacompleteness"] = "complete"
            /\ OutRows[i]["gameid"] # NaN
            /\ OutRows[i]["gameid"] # <<>>

\* b is a with its leading and trailing whitespace removed (NaN stays NaN)
IsTrimOf(a, b) ==
    IF a = NaN \/ b = NaN THEN a = b
    ELSE /\ \E i \in 1..(Len(a) + 1), j \in 0..Len(a) :
               /\ b = SubSeq(a, i, j)
               /\ \A k \in 1..(i - 1) : a[k] \in Whitespace
               /\ \A k \in (j + 1)..Len(a) : a[k] \in Whitespace
         /\ b # <<>> => (b[1] \notin Whitespace /\ b[Len(b)] \notin Whitespace)

\* an input row of the level the split selects whose identity is unresolved,
\* and which the completeness and league filters admit
Unresolved(r) ==
    /\ r["datacompleteness"] = "complete"
    /\ params.keep_leagues = {} \/ r["league"] \in params.keep_leagues
    /\ \/ params.split_on = "team" /\ r["position"] = "team" /\ r["team"] = "unknown team"
       \/ params.split_on = "player" /\ r["position"] # "team"
              /\ r["player"] = "unknown player"

\* C2: with split selector team (player), whatever the allow-lists, no row of
\* the output belongs to a game that has a complete, league-admitted
\* team-level (player-level) input row with team "unknown team" (player
\* "unknown player").
CE_C2 ==
    Returned =>
        \A i \in 1..Len(OutRows), j \in 1..Len(InRows) :
            ~ ( /\ Unresolved(InRows[j])
                /\ InRows[j]["gameid"] # NaN
                /\ IsTrimOf(InRows[j]["gameid"], OutRows[i]["gameid"]) )

\* C8 as stated: whenever clean returns T', clean of T' with the same
\* arguments returns too, and returns T' itself.
CE_C8 == cpc = "recleaned" => result2 = result

KeepsDateAndCompleteness ==
    \/ params.keep_columns = {}
    \/ {"date", "datacompleteness"} \subseteq params.keep_columns

\* C8 amended: whenever clean returns T' and the column allow-list is absent
\* or retains date and datacompleteness, clean of T' with the same arguments
\* returns T' itself (same rows, same order, same values).
Thm_C8 == (cpc = "recleaned" /\ KeepsDateAndCompleteness) => result2 = result

\* a second pass over a table from which the first pass removed a row and
\* trimmed a gameid, under a column allow-list
Wit_C8 ==
    /\ cpc = "recleaned"
    /\ params.keep_columns # {}
    /\ KeepsDateAndCompleteness
    /\ params.split_on = "team"
    /\ Len(InRows) = 2
    /\ Len(OutRows) = 1
    /\ \E j \in 1..2 : InRows[j]["gameid"] \notin {NaN, OutRows[1]["gameid"]}
    /\ result2 = result

\* C9 as stated: every output row is an input row restricted to the retained
\* columns, with every value other than date, gameid included, unchanged.
CE_C9 ==
    Returned =>
        \A i \in 1..Len(OutRows) : \E j \in 1..Len(InRows) :
            \A c \in result.table.cols \ {"date"} : OutRows[i][c] = InRows[j][c]

\* the output row out is the input row in: retained columns only, date
\* parsed, gameid trimmed, every other value as it was
SameRow(in, out) ==
    \A c \in result.table.cols :
        CASE c = "date" -> out[c] = Timestamp(in[c].v)
          [] c = "gameid" -> IsTrimOf(in[c], out[c])
          [] OTHER -> out[c] = in[c]

\* C9 amended: the output rows are input rows, in input order and none
\* added, restricted to the retained columns; every value other than date
\* and gameid is the input's, date is the parsed input date and gameid is
\* the input gameid without its leading and trailing whitespace.
Thm_C9 ==
    Returned =>
        /\ result.table.cols =
               IF params.keep_columns = {} THEN orig.cols ELSE params.keep_columns
        /\ \E f \in [1..Len(OutRows) -> 1..Len(InRows)] :
               /\ \A a, b \in 1..Len(OutRows) : a < b => f[a] < f[b]
               /\ \A k \in 1..Len(OutRows) : SameRow(InRows[f[k]], OutRows[k])

\* clean returned two rows under a column allow-list, one with a gameid that
\* had whitespace on its right
Wit_C9 ==
    /\ Returned
    /\ Len(OutRows) = 2
    /\ params.keep_columns # {}
    /\ \E j \in 1..2 : InRows[j]["gameid"] = <<"h", " ">> /\ OutRows[j]["gameid"] = <<"h">>

====
